---- MODULE Spec2Model ----
(***************************************************************************)
(* Grid trading bot: GridManager.build, the fill-driven replacement        *)
(* handler RunningBot.on_fill, the start/stop lifecycle of RunningBot and  *)
(* the process-wide registry running_bots (src/logic.py), as driven by the *)
(* dashboard (src/app.py).                                                 *)
(*                                                                         *)
(* Prices.  The program rounds every price it uses as a key to 4 decimal   *)
(* digits; one "tick" is 0.0001.  A Python float is modelled as an integer *)
(* number of 1/Sub ticks.  Values that are the float nearest to a 4-digit  *)
(* decimal are the multiples of Sub; the result of a float + or - that     *)
(* differs from the float nearest to the decimal result is one unit above  *)
(* or below it (the deviation is far below half a tick, so only its sign   *)
(* matters to <=, >= and round).  The sign is the IEEE-754 binary64 one,   *)
(* tabulated below for the operands the configurations of the model use.   *)
(***************************************************************************)
EXTENDS Integers, Sequences, FiniteSets, TLC

\* ------------------------------------------------------------------------
\* Bounds of the model
\* ------------------------------------------------------------------------
\* units per tick in which an unrounded float is represented
Sub == 4
\* RunningBot objects alive at the same time (registered, being started or
\* stopped, or with a feed thread that has not exited)
MaxBots == 2
\* log entries emitted in a behaviour in which the log queues are followed
MaxLog == 6

\* ------------------------------------------------------------------------
\* Configurations (Config, src/logic.py:20-28; values as the dashboard form
\* stores them, src/app.py:132-143), in ticks
\* ------------------------------------------------------------------------
Token == "ETH"

Cfg(mn, mx, st) == [token |-> Token, min_price |-> mn, max_price |-> mx, bin_step |-> st]

\* every configuration has min_price < max_price and
\* 0 < bin_step < max_price - min_price
Configs ==
    { Cfg(1, 5, 2), Cfg(2, 6, 2), Cfg(1, 6, 3), Cfg(1, 5, 3), Cfg(1, 4, 1),
      Cfg(2, 5, 2),
      Cfg(10000, 11000, 200),      \* 1.00 .. 1.10 by 0.02
      Cfg(1000, 3000, 1000),       \* 0.1 .. 0.3 by 0.1
      Cfg(10000, 10700, 400),      \* 1.00 .. 1.07 by 0.04
      Cfg(1000, 5000, 2000) }      \* 0.1 .. 0.5 by 0.2

\* ------------------------------------------------------------------------
\* Float arithmetic
\* ------------------------------------------------------------------------
Abs(x) == IF x < 0 THEN 0 - x ELSE x

\* <<a, b>> (ticks) with float(a) + float(b) above / below float(a + b)
SumAbove == {<<1, 2>>, <<2, 1>>, <<4, 2>>, <<5, 1>>, <<10, 2>>,
             <<1000, 2000>>, <<2000, 1000>>}
SumBelow == {<<1, 3>>, <<3, 1>>, <<5, 3>>, <<6, 2>>, <<12, 3>>}
\* <<a, b>> (ticks) with float(a) - float(b) above / below float(a - b)
DiffAbove == {<<4, 1>>, <<4, 3>>, <<5, 2>>, <<5, 3>>, <<8, 2>>, <<9, 3>>,
              <<10, 3>>, <<11, 3>>}
DiffBelow == {<<3, 1>>, <<3, 2>>, <<6, 1>>, <<6, 2>>, <<3000, 1000>>,
              <<3000, 2000>>}
\* adjacent levels <<lo, hi>> with midpoint m = (lo + hi) / 2 for which
\* abs(float(hi) - float(m)) < abs(float(lo) - float(m)), resp. >
TieUpper == {<<1, 3>>, <<3, 5>>, <<4, 6>>, <<1000, 3000>>, <<3000, 5000>>}
TieLower == {<<2, 4>>, <<1000, 2000>>}
\* <<min, max, step>> for which max + step/2 - min is a whole number of
\* steps and ceil((stop - start) / step) computed in floats is one more
ArangeExtra == {<<2, 5, 2>>}

\* a + b and a - b of two floats given in ticks; the result in 1/Sub ticks
FloatAdd(a, b) ==
    Sub * (a + b) + (IF <<a, b>> \in SumAbove THEN 1
                     ELSE IF <<a, b>> \in SumBelow THEN -1 ELSE 0)
FloatSub(a, b) ==
    Sub * (a - b) + (IF <<a, b>> \in DiffAbove THEN 1
                     ELSE IF <<a, b>> \in DiffBelow THEN -1 ELSE 0)

\* round(x, 4): x in 1/Sub ticks, the result in ticks.  No float lies
\* exactly halfway between two 4-digit decimals.
Round4(x) == (x + Sub \div 2) \div Sub

\* ------------------------------------------------------------------------
\* GridManager.build
\* ------------------------------------------------------------------------
\* len(np.arange(min, max + step/2, step)) = ceil((stop - start) / step)
ArangeLen(cfg) ==
    LET span == 2 * (cfg.max_price - cfg.min_price) + cfg.bin_step
        step == 2 * cfg.bin_step
    IN  (span + step - 1) \div step
        + (IF <<cfg.min_price, cfg.max_price, cfg.bin_step>> \in ArangeExtra
           THEN 1 ELSE 0)

\* levels = [round(p, 4) for p in np.arange(...)]
GridLevels(cfg) ==
    [i \in 1..ArangeLen(cfg) |->
        Round4(Sub * (cfg.min_price + (i - 1) * cfg.bin_step))]

\* key(y) < key(x) for key = lambda x: abs(x - round(last_close, 4))
KeyLess(y, x, ref) ==
    \/ Abs(y - ref) < Abs(x - ref)
    \/ /\ Abs(y - ref) = Abs(x - ref)
       /\ y # x
       /\ IF y > x THEN <<x, y>> \in TieUpper ELSE <<y, x>> \in TieLower

\* min(levels, key=...): the first element whose key no other undercuts
RECURSIVE MinScan(_, _, _, _)
MinScan(levels, i, best, ref) ==
    IF i > Len(levels) THEN best
    ELSE MinScan(levels, i + 1,
                 IF KeyLess(levels[i], best, ref) THEN levels[i] ELSE best,
                 ref)

Closest(cfg, last_close) ==
    LET levels == GridLevels(cfg)
    IN  MinScan(levels, 2, levels[1], Round4(last_close))

\* list.remove(x): drops the first occurrence of x
RECURSIVE RemoveFirst(_, _)
RemoveFirst(s, x) ==
    IF s = <<>> THEN <<>>
    ELSE IF Head(s) = x THEN Tail(s)
    ELSE <<Head(s)>> \o RemoveFirst(Tail(s), x)

build(cfg, last_close) ==
    LET closest == Closest(cfg, last_close)
        levels  == RemoveFirst(GridLevels(cfg), closest)
    IN  [buys  |-> SelectSeq(levels, LAMBDA p : p < closest),
         sells |-> SelectSeq(levels, LAMBDA p : p > closest)]

\* last close prices the exchange may report for a configuration: around
\* every level and every midpoint, below the floor and above the ceiling
\* (a price is positive)
LastCloses(cfg) ==
    { x \in { Sub * (cfg.min_price + (k * cfg.bin_step) \div 2) + o :
                k \in -1..(2 * ArangeLen(cfg)), o \in {-1, 0, 1} } : x > 0 }

\* ------------------------------------------------------------------------
\* ExchangeClient.place_order and RunningBot.on_fill
\* ------------------------------------------------------------------------
Sides == {"buy", "sell"}

\* what exchange.order does with one request: accepts it, answers with a
\* status other than "ok", or raises
PlaceResps == {"ok", "rejected", "raise"}

\* the dict active_orders: a function from the tracked levels to their side
NoOrders == [p \in {} |-> "buy"]
Put(orders, k, v) == [p \in DOMAIN orders \cup {k} |-> IF p = k THEN v ELSE orders[p]]
\* a pop that leaves the level in the dict
PopKeepsLevel(orders, k) == orders
Pop(orders, k) == [p \in DOMAIN orders \ {k} |-> orders[p]]

\* place_order(price, side, active_orders): price in 1/Sub ticks.  The
\* request carries the unrounded price; the key recorded is the rounded one.
place_order(active_orders, price, side, resp) ==
    [active_orders |-> IF resp = "ok"
                       THEN Put(active_orders, Round4(price), side)
                       ELSE active_orders,
     calls |-> << [op |-> "place_order", price |-> price, side |-> side,
                   ok |-> (resp = "ok")] >>,
     ok    |-> (resp = "ok")]

\* trade notifications of the feed: the fields on_fill reads
OtherCoin == "BTC"
FillPrices(cfg) ==
    { x \in { Sub * (cfg.min_price + k * cfg.bin_step) + o :
                k \in -1..(ArangeLen(cfg) + 1), o \in {-1, 0, 1} } : x > 0 }
Trades(cfg) ==
    [coin : {cfg.token}, trade_type : {"FILL"}, price : FillPrices(cfg)]
    \cup [coin : {OtherCoin}, trade_type : {"FILL"}, price : {Sub * cfg.min_price}]
    \cup [coin : {cfg.token}, trade_type : {"ORDER_PLACED"}, price : {Sub * cfg.min_price}]

\* an on_fill without the test of the market and of the event type
on_fill_AnyMarket(cfg, active_orders, trade, resp) ==
    LET price_key == Round4(trade.price) IN
    IF price_key \notin DOMAIN active_orders
    THEN [active_orders |-> active_orders, calls |-> <<>>, outcome |-> "untracked"]
    ELSE
    LET side      == active_orders[price_key]
        popped    == Pop(active_orders, price_key)
        new_price == IF side = "buy" THEN FloatAdd(price_key, cfg.bin_step)
                                     ELSE FloatSub(price_key, cfg.bin_step)
        new_side  == IF side = "buy" THEN "sell" ELSE "buy"
    IN  IF Sub * cfg.min_price <= new_price /\ new_price <= Sub * cfg.max_price
        THEN LET placed == place_order(popped, new_price, new_side, resp)
             IN  [active_orders |-> placed.active_orders,
                  calls   |-> placed.calls,
                  outcome |-> IF placed.ok THEN "replaced" ELSE "failed"]
        ELSE [active_orders |-> popped, calls |-> <<>>, outcome |-> "skipped"]

\* on_fill(trade); resp is the exchange's answer to the replacement order,
\* if one is sent.  outcome names the branch taken.
on_fill(cfg, active_orders, trade, resp) ==
    IF trade.coin # cfg.token \/ trade.trade_type # "FILL"
    THEN [active_orders |-> active_orders, calls |-> <<>>, outcome |-> "ignored"]
    ELSE
    LET price_key == Round4(trade.price) IN
    IF price_key \notin DOMAIN active_orders
    THEN [active_orders |-> active_orders, calls |-> <<>>, outcome |-> "untracked"]
    ELSE
    LET side      == active_orders[price_key]
        popped    == Pop(active_orders, price_key)
        new_price == IF side = "buy" THEN FloatAdd(price_key, cfg.bin_step)
                                     ELSE FloatSub(price_key, cfg.bin_step)
        new_side  == IF side = "buy" THEN "sell" ELSE "buy"
    IN  IF Sub * cfg.min_price <= new_price /\ new_price <= Sub * cfg.max_price
        THEN LET placed == place_order(popped, new_price, new_side, resp)
             IN  [active_orders |-> placed.active_orders,
                  calls   |-> placed.calls,
                  outcome |-> IF placed.ok THEN "replaced" ELSE "failed"]
        ELSE [active_orders |-> popped, calls |-> <<>>, outcome |-> "skipped"]

\* a placement loop that ends at the first order the exchange refuses
RECURSIVE PlaceAllUntilRefused(_, _, _, _)
PlaceAllUntilRefused(acc, seq, side, accepted) ==
    IF seq = <<>> \/ Head(seq) \notin accepted THEN acc
    ELSE LET placed == place_order(acc.active_orders, Sub * Head(seq), side, "ok")
         IN  PlaceAllUntilRefused([active_orders |-> placed.active_orders,
                                   calls |-> acc.calls \o placed.calls],
                                  Tail(seq), side, accepted)

\* the two placement loops of RunningBot.start: one order per level of
\* seq, in order; accepted is the set of levels the exchange accepts
RECURSIVE PlaceAll(_, _, _, _)
PlaceAll(acc, seq, side, accepted) ==
    IF seq = <<>> THEN acc
    ELSE LET placed == place_order(acc.active_orders, Sub * Head(seq), side,
                                   IF Head(seq) \in accepted THEN "ok" ELSE "rejected")
         IN  PlaceAll([active_orders |-> placed.active_orders,
                       calls |-> acc.calls \o placed.calls],
                      Tail(seq), side, accepted)

PlaceGrid(cfg, last_close, accepted) ==
    LET grid == build(cfg, last_close)
        afterBuys == PlaceAll([active_orders |-> NoOrders, calls |-> <<>>],
                              grid.buys, "buy", accepted)
    IN  PlaceAll(afterBuys, grid.sells, "sell", accepted)

\* ------------------------------------------------------------------------
\* State
\* ------------------------------------------------------------------------
BotIds == {"grid1"}
\* execution contexts that call into the registry (dashboard sessions)
Ctxs == {"ui1", "ui2"}
Slots == 1..MaxBots

VARIABLES
    bot_config,    \* the configuration the dashboard stores for the bot and
                   \* passes to every start_bot (app.py bots[bot_name])
    running_bots,  \* the registry: bot id -> RunningBot object (its slot)
    bots,          \* the RunningBot objects, by slot
    ctx,           \* per calling context: the call in progress
    last,          \* the step taken last: what it was and what it did
    built,         \* result of the last stand-alone GridManager.build call
    delivered,     \* the notifications an object has processed, where the
                   \* feed is observed: [bot, trade]
    logs           \* the log queues of the objects, where they are followed

vars == <<bot_config, running_bots, bots, ctx, last, built, delivered, logs>>

\* a slot holding no object
NoTrade == [coin |-> "none", trade_type |-> "none", price |-> 0]
\* handling: the on_fill call the feed thread is in, where on_fill is
\* followed statement by statement: the notification, the level and side it
\* popped, and active_orders as the call found it
NoFill == [trade |-> NoTrade, price_key |-> 0, side |-> "none", before |-> NoOrders]
FreeBot == [live |-> FALSE, id |-> "none", active_orders |-> NoOrders,
            running |-> FALSE, monitor |-> "none", thread |-> FALSE,
            handling |-> NoFill]
\* RunningBot.__init__
NewBot(id) == [live |-> TRUE, id |-> id, active_orders |-> NoOrders,
               running |-> FALSE, monitor |-> "none", thread |-> FALSE,
               handling |-> NoFill]

\* a context between calls.  During a call: pc, the object and the bot id
\* it works on, the object that was Running under that id when the call was
\* made (0: none), and the ExchangeClient methods the call has invoked
IdleCtx == [pc |-> "idle", bot |-> 0, id |-> "none", found |-> 0, issued |-> {},
            logs |-> <<>>]

\* calls of ExchangeClient methods: ok, whether the call returned (for
\* place_order: returned True)
CancelAllCall == [op |-> "cancel_all", price |-> 0, side |-> "none", ok |-> TRUE]
GetPriceCall == [op |-> "get_close_price", price |-> 0, side |-> "none", ok |-> TRUE]
\* get_close_price() returning last_close
GotPrice(last_close) == [GetPriceCall EXCEPT !.price = last_close]
\* the call raised
Raised(call) == [call EXCEPT !.ok = FALSE]

\* op: the step; who: the context that took it; bot: the object it acted
\* on; calls: the ExchangeClient methods it invoked, in order.
\* For a step that ends a call: ret, the value returned ("raised": an
\* exception left the call); id, found, issued: as in the context; obj: the
\* RunningBot object as the call leaves it.
\* For an on_fill: trade, the notification; outcome, the branch taken;
\* before, active_orders as the call found it; prev, the branch taken by
\* the step before if that was an on_fill of the same object for the same
\* notification ("none" if it was not).
\* For a get_bot_logs that returns: logs, the list returned.
Step(op, who, bot, calls) ==
    [op |-> op, who |-> who, bot |-> bot, calls |-> calls,
     ret |-> "none", id |-> "none", found |-> 0, issued |-> {}, obj |-> FreeBot,
     trade |-> NoTrade, outcome |-> "none", before |-> NoOrders, prev |-> "none",
     logs |-> <<>>]

Registered(b) == \E id \in DOMAIN running_bots : running_bots[id] = b
\* is_running as the dashboard evaluates it (app.py:56)
IsRunning(id) == id \in DOMAIN running_bots

\* an object nothing refers to any more is reclaimed: it is not in the
\* registry, no call in progress holds it and its feed thread has exited
Collect(bs, reg, cx) ==
    [b \in Slots |->
        IF \/ \E id \in DOMAIN reg : reg[id] = b
           \/ \E c \in Ctxs : cx[c].pc # "idle" /\ cx[c].bot = b
           \/ bs[b].thread
        THEN bs[b] ELSE FreeBot]

\* RunningBot.log_queue.  on: whether the queues are followed in this
\* behaviour (where they are not, logs never changes); next: the number of
\* the next entry, entries being numbered in the order of emission;
\* queue[b]: the entries in log_queue of object b; emitted[b]: all entries
\* the object has put; returned: the entries get_bot_logs calls have
\* returned, in the order of return
LogsOff == [on |-> FALSE, next |-> 1,
            queue |-> [b \in Slots |-> <<>>], emitted |-> [b \in Slots |-> <<>>],
            returned |-> <<>>]
\* the queue of an object that no longer exists is gone with it
DropQueues(lg, bs) ==
    [lg EXCEPT !.queue   = [b \in Slots |-> IF bs[b].live THEN lg.queue[b] ELSE <<>>],
               !.emitted = [b \in Slots |-> IF bs[b].live THEN lg.emitted[b] ELSE <<>>]]
\* self.log(message), k times in a row, by object b
CanLog(k) == ~logs.on \/ logs.next + k - 1 <= MaxLog
Log(b, k) ==
    IF ~logs.on THEN logs
    ELSE LET entries == [i \in 1..k |-> logs.next + i - 1] IN
         [logs EXCEPT !.next = @ + k,
                      !.queue[b] = @ \o entries,
                      !.emitted[b] = @ \o entries]
\* the number of self.log calls of on_fill, by the branch taken
FillLogs(outcome) ==
    CASE outcome = "ignored"   -> 0
      [] outcome = "untracked" -> 2
      [] outcome = "skipped"   -> 4
      [] OTHER                 -> 3

FreeSlots == {b \in Slots : ~bots[b].live}
FirstFree == CHOOSE b \in FreeSlots : \A o \in FreeSlots : b <= o

InitWith(cfgs) ==
    /\ bot_config \in cfgs
    /\ running_bots = [id \in {} |-> 0]
    /\ bots = [b \in Slots |-> FreeBot]
    /\ ctx = [c \in Ctxs |-> IdleCtx]
    /\ last = Step("init", "none", 0, <<>>)
    /\ built = [last_close |-> 0, buys |-> <<>>, sells |-> <<>>]
    /\ delivered = {}
    /\ logs = LogsOff

\* ------------------------------------------------------------------------
\* Lifecycle phase of a RunningBot object.  The code keeps only the flag
\* running; the phase follows from it and from the call in progress.
\* ------------------------------------------------------------------------
StartingPcs == {"start_cancel", "start_price", "start_subscribe", "start_running"}
StoppingPcs == {"stop_join", "stop_cancel"}

Phase(b) ==
    IF \E c \in Ctxs : ctx[c].bot = b /\ ctx[c].pc \in StartingPcs THEN "Starting"
    ELSE IF \E c \in Ctxs : ctx[c].bot = b /\ ctx[c].pc \in StoppingPcs THEN "Stopping"
    ELSE IF bots[b].running THEN "Running"
    ELSE "Stopped"

CallNames(calls) == {calls[i].op : i \in 1..Len(calls)}

\* the context moves on within its call
Goto(c, pc, calls) ==
    [ctx EXCEPT ![c].pc = pc, ![c].issued = @ \cup CallNames(calls)]
\* the call of the context returns
Return(c) == [ctx EXCEPT ![c] = IdleCtx]
\* the step that ends the call of context c with ret
Returned(op, c, ret, calls) ==
    [Step(op, c, ctx[c].bot, calls) EXCEPT
        !.ret = ret, !.id = ctx[c].id, !.found = ctx[c].found,
        !.issued = ctx[c].issued \cup CallNames(calls),
        !.obj = bots[ctx[c].bot]]

\* ------------------------------------------------------------------------
\* start_bot(bot_id, config_dict) and RunningBot.start
\* ------------------------------------------------------------------------
\* start_bot builds the Config and a new RunningBot and enters start();
\* self.running of the new object is False, so start() goes on
StartBot(c, id) ==
    /\ ctx[c].pc = "idle"
    /\ FreeSlots # {}
    /\ LET b == FirstFree IN
        /\ bots' = [bots EXCEPT ![b] = NewBot(id)]
        /\ ctx' = [ctx EXCEPT ![c] =
                    [pc |-> "start_cancel", bot |-> b, id |-> id,
                     found |-> IF IsRunning(id) /\ Phase(running_bots[id]) = "Running"
                               THEN running_bots[id] ELSE 0,
                     issued |-> {}, logs |-> <<>>]]
        /\ last' = Step("StartBot", c, b, <<>>)
    /\ UNCHANGED <<bot_config, running_bots, built, delivered>>
    /\ logs' = DropQueues(logs, bots')

\* ExchangeClient.__init__ raises (bad key, no connection), or start() is
\* entered on the main thread, where installing the handler raises:
\* start_bot catches it and returns False
StartBotRaise(c, id) ==
    /\ ctx[c].pc = "idle"
    /\ last' = [Step("StartBotRaise", c, 0, <<>>) EXCEPT
                    !.ret = "false", !.id = id, !.obj = NewBot(id),
                    !.found = IF IsRunning(id) /\ Phase(running_bots[id]) = "Running"
                              THEN running_bots[id] ELSE 0]
    /\ UNCHANGED <<bot_config, running_bots, bots, ctx, built, delivered, logs>>

\* a start that fails: start() returns False, start_bot returns False and
\* drops the object
StartFails(c, op, calls) ==
    /\ ctx' = Return(c)
    /\ bots' = Collect(bots, running_bots, ctx')
    /\ last' = Returned(op, c, "false", calls)
    /\ UNCHANGED <<bot_config, running_bots, built, delivered>>
    /\ CanLog(IF op = "StartCancelRaise" THEN 2 ELSE 1)
    /\ logs' = DropQueues(Log(ctx[c].bot, IF op = "StartCancelRaise" THEN 2 ELSE 1), bots')

\* client.cancel_all() returns (failures of single cancellations are caught)
StartCancel(c) ==
    /\ ctx[c].pc = "start_cancel"
    /\ ctx' = Goto(c, "start_price", <<CancelAllCall>>)
    /\ last' = Step("StartCancel", c, ctx[c].bot, <<CancelAllCall>>)
    /\ UNCHANGED <<bot_config, running_bots, bots, built, delivered>>
    /\ CanLog(1)
    /\ logs' = Log(ctx[c].bot, 1)

\* client.cancel_all() raises (info.user_state is outside its try)
StartCancelRaise(c) ==
    /\ ctx[c].pc = "start_cancel"
    /\ StartFails(c, "StartCancelRaise", <<Raised(CancelAllCall)>>)

\* get_close_price() returns last_close; the grid is built and placed
StartGrid(c, last_close, accepted) ==
    /\ ctx[c].pc = "start_price"
    /\ LET placed == PlaceGrid(bot_config, last_close, accepted)
           calls  == <<GotPrice(last_close)>> \o placed.calls
       IN
        /\ bots' = [bots EXCEPT ![ctx[c].bot].active_orders = placed.active_orders]
        /\ ctx' = Goto(c, "start_subscribe", calls)
        /\ last' = Step("StartGrid", c, ctx[c].bot, calls)
    /\ UNCHANGED <<bot_config, running_bots, built, delivered>>
    /\ CanLog(1)
    /\ logs' = Log(ctx[c].bot, 1)

\* get_close_price() raises: no candle, or the request fails
StartPriceUnavailable(c) ==
    /\ ctx[c].pc = "start_price"
    /\ StartFails(c, "StartPriceUnavailable", <<Raised(GetPriceCall)>>)

\* the monitor is created and its thread started
StartSubscribe(c) ==
    /\ ctx[c].pc = "start_subscribe"
    /\ bots' = [bots EXCEPT ![ctx[c].bot].monitor = "open", ![ctx[c].bot].thread = TRUE]
    /\ ctx' = Goto(c, "start_running", <<>>)
    /\ last' = Step("StartSubscribe", c, ctx[c].bot, <<>>)
    /\ UNCHANGED <<bot_config, running_bots, built, delivered, logs>>

\* creating the monitor or starting the thread raises
StartSubscribeRaise(c) ==
    /\ ctx[c].pc = "start_subscribe"
    /\ StartFails(c, "StartSubscribeRaise", <<>>)

\* self.running = True; start() returns True
StartSetRunning(c) ==
    /\ ctx[c].pc = "start_running"
    /\ bots' = [bots EXCEPT ![ctx[c].bot].running = TRUE]
    /\ ctx' = Goto(c, "start_register", <<>>)
    /\ last' = Step("StartSetRunning", c, ctx[c].bot, <<>>)
    /\ UNCHANGED <<bot_config, running_bots, built, delivered>>
    /\ CanLog(1)
    /\ logs' = Log(ctx[c].bot, 1)

\* running_bots[bot_id] = bot; start_bot returns True
StartRegister(c) ==
    /\ ctx[c].pc = "start_register"
    /\ running_bots' = [id \in DOMAIN running_bots \cup {ctx[c].id} |->
                          IF id = ctx[c].id THEN ctx[c].bot ELSE running_bots[id]]
    /\ ctx' = Return(c)
    /\ bots' = Collect(bots, running_bots', ctx')
    /\ last' = Returned("StartRegister", c, "true", <<>>)
    /\ UNCHANGED <<bot_config, built, delivered>>
    /\ logs' = DropQueues(logs, bots')

\* ------------------------------------------------------------------------
\* stop_bot(bot_id) and RunningBot.stop
\* ------------------------------------------------------------------------
\* bot_id is in running_bots: the object is fetched and stop() entered
StopBot(c, id) ==
    /\ ctx[c].pc = "idle"
    /\ IsRunning(id)
    /\ ctx' = [ctx EXCEPT ![c] =
                [pc |-> "stop_check", bot |-> running_bots[id], id |-> id,
                 found |-> running_bots[id], issued |-> {}, logs |-> <<>>]]
    /\ last' = Step("StopBot", c, running_bots[id], <<>>)
    /\ UNCHANGED <<bot_config, running_bots, bots, built, delivered, logs>>

\* bot_id is not in running_bots: stop_bot returns False
StopBotNotRunning(c, id) ==
    /\ ctx[c].pc = "idle"
    /\ ~IsRunning(id)
    /\ last' = [Step("StopBotNotRunning", c, 0, <<>>) EXCEPT !.ret = "false", !.id = id]
    /\ UNCHANGED <<bot_config, running_bots, bots, ctx, built, delivered, logs>>

\* stop() finds self.running False and returns at once
StopAlreadyStopped(c) ==
    /\ ctx[c].pc = "stop_check"
    /\ ~bots[ctx[c].bot].running
    /\ ctx' = Goto(c, "stop_del", <<>>)
    /\ last' = Step("StopAlreadyStopped", c, ctx[c].bot, <<>>)
    /\ UNCHANGED <<bot_config, running_bots, bots, built, delivered, logs>>

\* stop() finds self.running True and calls monitor.stop()
StopMonitor(c) ==
    /\ ctx[c].pc = "stop_check"
    /\ bots[ctx[c].bot].running
    /\ bots' = [bots EXCEPT ![ctx[c].bot].monitor = "stopped"]
    /\ ctx' = Goto(c, "stop_join", <<>>)
    /\ last' = Step("StopMonitor", c, ctx[c].bot, <<>>)
    /\ UNCHANGED <<bot_config, running_bots, built, delivered>>
    /\ CanLog(1)
    /\ logs' = Log(ctx[c].bot, 1)

\* the feed thread has exited: is_alive() is False, or join returns
StopJoinExited(c) ==
    /\ ctx[c].pc = "stop_join"
    /\ ~bots[ctx[c].bot].thread
    /\ ctx' = Goto(c, "stop_cancel", <<>>)
    /\ last' = Step("StopJoinExited", c, ctx[c].bot, <<>>)
    /\ UNCHANGED <<bot_config, running_bots, bots, built, delivered, logs>>

\* join(timeout=5.0) returns with the feed thread still alive
StopJoinTimeout(c) ==
    /\ ctx[c].pc = "stop_join"
    /\ bots[ctx[c].bot].thread
    /\ ctx' = Goto(c, "stop_cancel", <<>>)
    /\ last' = Step("StopJoinTimeout", c, ctx[c].bot, <<>>)
    /\ UNCHANGED <<bot_config, running_bots, bots, built, delivered, logs>>

\* client.cancel_all() returns; self.running = False; stop() returns
StopCancel(c) ==
    /\ ctx[c].pc = "stop_cancel"
    /\ bots' = [bots EXCEPT ![ctx[c].bot].running = FALSE]
    /\ ctx' = Goto(c, "stop_del", <<CancelAllCall>>)
    /\ last' = Step("StopCancel", c, ctx[c].bot, <<CancelAllCall>>)
    /\ UNCHANGED <<bot_config, running_bots, built, delivered>>
    /\ CanLog(1)
    /\ logs' = Log(ctx[c].bot, 1)

\* client.cancel_all() raises: nothing in stop() or stop_bot catches it
StopCancelRaise(c) ==
    /\ ctx[c].pc = "stop_cancel"
    /\ ctx' = Return(c)
    /\ bots' = Collect(bots, running_bots, ctx')
    /\ last' = Returned("StopCancelRaise", c, "raised", <<Raised(CancelAllCall)>>)
    /\ UNCHANGED <<bot_config, running_bots, built, delivered>>
    /\ logs' = DropQueues(logs, bots')

\* del running_bots[bot_id]; stop_bot returns True
StopDel(c) ==
    /\ ctx[c].pc = "stop_del"
    /\ IsRunning(ctx[c].id)
    /\ running_bots' = [id \in DOMAIN running_bots \ {ctx[c].id} |-> running_bots[id]]
    /\ ctx' = Return(c)
    /\ bots' = Collect(bots, running_bots', ctx')
    /\ last' = Returned("StopDel", c, "true", <<>>)
    /\ UNCHANGED <<bot_config, built, delivered>>
    /\ logs' = DropQueues(logs, bots')

\* del running_bots[bot_id] raises KeyError: another call removed the entry
StopDelKeyError(c) ==
    /\ ctx[c].pc = "stop_del"
    /\ ~IsRunning(ctx[c].id)
    /\ ctx' = Return(c)
    /\ bots' = Collect(bots, running_bots, ctx')
    /\ last' = Returned("StopDelKeyError", c, "raised", <<>>)
    /\ UNCHANGED <<bot_config, running_bots, built, delivered>>
    /\ logs' = DropQueues(logs, bots')

\* ------------------------------------------------------------------------
\* get_bot_logs(bot_id)
\* ------------------------------------------------------------------------
\* bot_id is not in running_bots: get_bot_logs returns []
GetLogsNotRunning(c, id) ==
    /\ ctx[c].pc = "idle"
    /\ ~IsRunning(id)
    /\ last' = [Step("GetLogsNotRunning", c, 0, <<>>) EXCEPT !.ret = "logs", !.id = id]
    /\ UNCHANGED <<bot_config, running_bots, bots, ctx, built, delivered, logs>>

\* bot_id is in running_bots: the object is fetched, logs = []
GetLogs(c, id) ==
    /\ ctx[c].pc = "idle"
    /\ IsRunning(id)
    /\ ctx' = [ctx EXCEPT ![c] =
                [pc |-> "logs_empty", bot |-> running_bots[id], id |-> id,
                 found |-> running_bots[id], issued |-> {}, logs |-> <<>>]]
    /\ last' = Step("GetLogs", c, running_bots[id], <<>>)
    /\ UNCHANGED <<bot_config, running_bots, bots, built, delivered, logs>>

\* log_queue.empty() is False: the loop body is entered
GetLogsMore(c) ==
    /\ ctx[c].pc = "logs_empty"
    /\ logs.queue[ctx[c].bot] # <<>>
    /\ ctx' = Goto(c, "logs_get", <<>>)
    /\ last' = Step("GetLogsMore", c, ctx[c].bot, <<>>)
    /\ UNCHANGED <<bot_config, running_bots, bots, built, delivered, logs>>

\* a get() that leaves the entry in the queue
GetLogsPeek(c) ==
    /\ ctx[c].pc = "logs_get"
    /\ logs.queue[ctx[c].bot] # <<>>
    /\ ctx' = [ctx EXCEPT ![c].pc = "logs_empty",
                          ![c].logs = Append(@, Head(logs.queue[ctx[c].bot]))]
    /\ last' = Step("GetLogsTake", c, ctx[c].bot, <<>>)
    /\ UNCHANGED <<bot_config, running_bots, bots, built, delivered, logs>>

\* logs.append(log_queue.get()); get() waits while the queue is empty
GetLogsTake(c) ==
    /\ ctx[c].pc = "logs_get"
    /\ logs.queue[ctx[c].bot] # <<>>
    /\ ctx' = [ctx EXCEPT ![c].pc = "logs_empty",
                          ![c].logs = Append(@, Head(logs.queue[ctx[c].bot]))]
    /\ logs' = [logs EXCEPT !.queue[ctx[c].bot] = Tail(@)]
    /\ last' = Step("GetLogsTake", c, ctx[c].bot, <<>>)
    /\ UNCHANGED <<bot_config, running_bots, bots, built, delivered>>

\* log_queue.empty() is True: get_bot_logs returns logs
GetLogsReturn(c) ==
    /\ ctx[c].pc = "logs_empty"
    /\ logs.queue[ctx[c].bot] = <<>>
    /\ ctx' = Return(c)
    /\ bots' = Collect(bots, running_bots, ctx')
    /\ logs' = DropQueues([logs EXCEPT !.returned = @ \o ctx[c].logs], bots')
    /\ last' = [Returned("GetLogsReturn", c, "logs", <<>>) EXCEPT !.logs = ctx[c].logs]
    /\ UNCHANGED <<bot_config, running_bots, built, delivered>>

\* ------------------------------------------------------------------------
\* The feed thread of a RunningBot object
\* ------------------------------------------------------------------------
\* an on_fill out of which an exception of the exchange call escapes: the
\* level is popped and the feed thread ends
OnFillStepEscaping(b, trade, resp) ==
    /\ bots[b].live
    /\ bots[b].thread
    /\ bots[b].handling = NoFill
    /\ LET res == on_fill(bot_config, bots[b].active_orders, trade, resp) IN
        /\ bots' = [bots EXCEPT ![b].active_orders = res.active_orders,
                                ![b].thread = ~(res.outcome = "failed" /\ resp = "raise")]
        /\ last' = [Step("OnFill", "none", b, res.calls) EXCEPT
                        !.trade = trade, !.outcome = res.outcome,
                        !.before = bots[b].active_orders,
                        !.prev = IF last.op = "OnFill" /\ last.bot = b /\ last.trade = trade
                                 THEN last.outcome ELSE "none"]
    /\ UNCHANGED <<bot_config, running_bots, ctx, built>>
    /\ CanLog(FillLogs(on_fill(bot_config, bots[b].active_orders, trade, resp).outcome))
    /\ logs' = Log(b, FillLogs(on_fill(bot_config, bots[b].active_orders, trade, resp).outcome))

\* the monitor delivers a notification: on_fill(trade) runs to its end
OnFillStep(b, trade, resp) ==
    /\ bots[b].live
    /\ bots[b].thread
    /\ bots[b].handling = NoFill
    /\ LET res == on_fill(bot_config, bots[b].active_orders, trade, resp) IN
        /\ bots' = [bots EXCEPT ![b].active_orders = res.active_orders]
        /\ last' = [Step("OnFill", "none", b, res.calls) EXCEPT
                        !.trade = trade, !.outcome = res.outcome,
                        !.before = bots[b].active_orders,
                        !.prev = IF last.op = "OnFill" /\ last.bot = b /\ last.trade = trade
                                 THEN last.outcome ELSE "none"]
    /\ UNCHANGED <<bot_config, running_bots, ctx, built>>
    /\ CanLog(FillLogs(on_fill(bot_config, bots[b].active_orders, trade, resp).outcome))
    /\ logs' = Log(b, FillLogs(on_fill(bot_config, bots[b].active_orders, trade, resp).outcome))

OnFill(b, trade, resp) ==
    /\ OnFillStep(b, trade, resp)
    /\ UNCHANGED delivered

\* branches of on_fill in which the notification is one of an order the
\* object tracks
Processed == {"replaced", "failed", "skipped"}

\* the same, with the feed observed: a processed notification is recorded
OnFillObserved(b, trade, resp) ==
    /\ OnFillStep(b, trade, resp)
    /\ delivered' =
         IF on_fill(bot_config, bots[b].active_orders, trade, resp).outcome \in Processed
         THEN delivered \cup {[bot |-> b, trade |-> trade]}
         ELSE delivered

\* on_fill statement by statement, for a notification of a tracked order.
\* Up to the pop and the computation of the replacement (lines 147-167):
\* a callback that starts while another one of the same thread is in
\* progress
OnFillPopReentrant(b, trade) ==
    /\ bots[b].live
    /\ bots[b].thread
    /\ trade.coin = bot_config.token /\ trade.trade_type = "FILL"
    /\ Round4(trade.price) \in DOMAIN bots[b].active_orders
    /\ LET price_key == Round4(trade.price) IN
        bots' = [bots EXCEPT
                    ![b].active_orders = Pop(@, price_key),
                    ![b].handling = [trade |-> trade, price_key |-> price_key,
                                     side |-> bots[b].active_orders[price_key],
                                     before |-> bots[b].active_orders]]
    /\ last' = [Step("OnFillPop", "none", b, <<>>) EXCEPT !.trade = trade]
    /\ CanLog(3)
    /\ logs' = Log(b, 3)
    /\ UNCHANGED <<bot_config, running_bots, ctx, built, delivered>>

\* the monitor calls on_fill from its one thread, one call after the other
OnFillPop(b, trade) ==
    /\ bots[b].handling = NoFill
    /\ OnFillPopReentrant(b, trade)

\* the range test and place_order, or the skip (lines 169-172)
OnFillPlace(b, resp) ==
    /\ bots[b].live
    /\ bots[b].handling # NoFill
    /\ LET h         == bots[b].handling
           new_price == IF h.side = "buy" THEN FloatAdd(h.price_key, bot_config.bin_step)
                                          ELSE FloatSub(h.price_key, bot_config.bin_step)
           new_side  == IF h.side = "buy" THEN "sell" ELSE "buy"
           within    == /\ Sub * bot_config.min_price <= new_price
                        /\ new_price <= Sub * bot_config.max_price
           placed    == place_order(bots[b].active_orders, new_price, new_side, resp)
       IN
        /\ bots' = [bots EXCEPT
                        ![b].active_orders = IF within THEN placed.active_orders ELSE @,
                        ![b].handling = NoFill]
        /\ last' = [Step("OnFillPlace", "none", b, IF within THEN placed.calls ELSE <<>>)
                        EXCEPT !.trade = h.trade, !.before = h.before,
                               !.outcome = IF ~within THEN "skipped"
                                           ELSE IF placed.ok THEN "replaced" ELSE "failed"]
        /\ CanLog(IF within THEN 0 ELSE 1)
        /\ logs' = Log(b, IF within THEN 0 ELSE 1)
    /\ UNCHANGED <<bot_config, running_bots, ctx, built, delivered>>

\* monitor.start returns after monitor.stop(): the thread ends
ThreadExit(b) ==
    /\ bots[b].live
    /\ bots[b].thread
    /\ bots[b].handling = NoFill
    /\ bots[b].monitor = "stopped"
    /\ bots' = Collect([bots EXCEPT ![b].thread = FALSE], running_bots, ctx)
    /\ last' = Step("ThreadExit", "none", b, <<>>)
    /\ UNCHANGED <<bot_config, running_bots, ctx, built, delivered>>
    /\ logs' = DropQueues(logs, bots')

\* ------------------------------------------------------------------------
\* Specifications
\* ------------------------------------------------------------------------
GridLevelSet(cfg) == {GridLevels(cfg)[i] : i \in 1..ArangeLen(cfg)}

\* The lifecycle: a context calls start_bot and stop_bot in any order, for
\* a bot that runs or not, while the feed threads deliver notifications.
\* One configuration; the last close is at a level or halfway between two;
\* fills arrive at the exact levels, and one notification is not a fill.
Caller == "ui1"
LifecycleConfigs == {Cfg(1, 5, 3)}
LifecycleCloses(cfg) ==
    {Sub * (cfg.min_price + (k * cfg.bin_step) \div 2) : k \in 0..(2 * ArangeLen(cfg) - 2)}
LifecycleTrades(cfg) ==
    {t \in Trades(cfg) : t.coin = cfg.token /\ t.price \in {Sub * p : p \in GridLevelSet(cfg)}}

Init == InitWith(LifecycleConfigs)

Next ==
    \/ \E id \in BotIds : StartBot(Caller, id)
    \/ \E id \in BotIds : StartBotRaise(Caller, id)
    \/ StartCancel(Caller)
    \/ StartCancelRaise(Caller)
    \/ \E last_close \in LifecycleCloses(bot_config),
          accepted \in SUBSET GridLevelSet(bot_config) :
            StartGrid(Caller, last_close, accepted)
    \/ StartPriceUnavailable(Caller)
    \/ StartSubscribe(Caller)
    \/ StartSubscribeRaise(Caller)
    \/ StartSetRunning(Caller)
    \/ StartRegister(Caller)
    \/ \E id \in BotIds : StopBot(Caller, id)
    \/ \E id \in BotIds : StopBotNotRunning(Caller, id)
    \/ StopMonitor(Caller)
    \/ StopJoinExited(Caller)
    \/ StopJoinTimeout(Caller)
    \/ StopCancel(Caller)
    \/ StopCancelRaise(Caller)
    \/ StopDel(Caller)
    \/ \E b \in Slots, trade \in LifecycleTrades(bot_config), resp \in PlaceResps :
            OnFill(b, trade, resp)
    \/ \E b \in Slots : ThreadExit(b)

Spec == Init /\ [][Next]_vars

\* GridManager.build on its own: every configuration, every last close
Build(last_close) ==
    /\ built' = [last_close |-> last_close,
                 buys  |-> build(bot_config, last_close).buys,
                 sells |-> build(bot_config, last_close).sells]
    /\ last' = Step("Build", "none", 0, <<>>)
    /\ UNCHANGED <<bot_config, running_bots, bots, ctx, delivered, logs>>

InitBuild == InitWith(Configs)
NextBuild == \E last_close \in LastCloses(bot_config) : Build(last_close)
SpecBuild == InitBuild /\ [][NextBuild]_vars

\* One dashboard session that starts the bot and lets it run: the Start
\* button is offered only while the bot is not in running_bots
\* (app.py:62-71).  Every configuration, every last close, every
\* notification.
InitFill == InitWith(Configs)
NextFill ==
    \/ \E id \in BotIds : ~IsRunning(id) /\ StartBot(Caller, id)
    \/ \E id \in BotIds : ~IsRunning(id) /\ StartBotRaise(Caller, id)
    \/ StartCancel(Caller)
    \/ StartCancelRaise(Caller)
    \/ \E last_close \in LastCloses(bot_config),
          accepted \in SUBSET GridLevelSet(bot_config) :
            StartGrid(Caller, last_close, accepted)
    \/ StartPriceUnavailable(Caller)
    \/ StartSubscribe(Caller)
    \/ StartSubscribeRaise(Caller)
    \/ StartSetRunning(Caller)
    \/ StartRegister(Caller)
    \/ \E b \in Slots, trade \in Trades(bot_config), resp \in PlaceResps :
            OnFill(b, trade, resp)
SpecFill == InitFill /\ [][NextFill]_vars

\* Two dashboard sessions that call start_bot and stop_bot concurrently;
\* no notification arrives.
NextSessions ==
    \/ \E c \in Ctxs, id \in BotIds : StartBot(c, id)
    \/ \E c \in Ctxs, id \in BotIds : StartBotRaise(c, id)
    \/ \E c \in Ctxs : StartCancel(c)
    \/ \E c \in Ctxs : StartCancelRaise(c)
    \/ \E c \in Ctxs, last_close \in LifecycleCloses(bot_config),
          accepted \in SUBSET GridLevelSet(bot_config) :
            StartGrid(c, last_close, accepted)
    \/ \E c \in Ctxs : StartPriceUnavailable(c)
    \/ \E c \in Ctxs : StartSubscribe(c)
    \/ \E c \in Ctxs : StartSubscribeRaise(c)
    \/ \E c \in Ctxs : StartSetRunning(c)
    \/ \E c \in Ctxs : StartRegister(c)
    \/ \E c \in Ctxs, id \in BotIds : StopBot(c, id)
    \/ \E c \in Ctxs, id \in BotIds : StopBotNotRunning(c, id)
    \/ \E c \in Ctxs : StopAlreadyStopped(c)
    \/ \E c \in Ctxs : StopMonitor(c)
    \/ \E c \in Ctxs : StopJoinExited(c)
    \/ \E c \in Ctxs : StopJoinTimeout(c)
    \/ \E c \in Ctxs : StopCancel(c)
    \/ \E c \in Ctxs : StopCancelRaise(c)
    \/ \E c \in Ctxs : StopDel(c)
    \/ \E c \in Ctxs : StopDelKeyError(c)
    \/ \E b \in Slots : ThreadExit(b)
SpecSessions == Init /\ [][NextSessions]_vars

\* One dashboard session: Start is offered only while the bot is not in
\* running_bots, Stop only while it is (app.py:56-71).
NextDashboard ==
    \/ \E id \in BotIds : ~IsRunning(id) /\ StartBot(Caller, id)
    \/ \E id \in BotIds : ~IsRunning(id) /\ StartBotRaise(Caller, id)
    \/ StartCancel(Caller)
    \/ StartCancelRaise(Caller)
    \/ \E last_close \in LifecycleCloses(bot_config),
          accepted \in SUBSET GridLevelSet(bot_config) :
            StartGrid(Caller, last_close, accepted)
    \/ StartPriceUnavailable(Caller)
    \/ StartSubscribe(Caller)
    \/ StartSubscribeRaise(Caller)
    \/ StartSetRunning(Caller)
    \/ StartRegister(Caller)
    \/ \E id \in BotIds : StopBot(Caller, id)
    \/ StopMonitor(Caller)
    \/ StopJoinExited(Caller)
    \/ StopJoinTimeout(Caller)
    \/ StopCancel(Caller)
    \/ StopCancelRaise(Caller)
    \/ StopDel(Caller)
    \/ \E b \in Slots, trade \in LifecycleTrades(bot_config), resp \in PlaceResps :
            OnFill(b, trade, resp)
    \/ \E b \in Slots : ThreadExit(b)
SpecDashboard == Init /\ [][NextDashboard]_vars

\* A bot that was started and runs, with the feed observed: at-least-once
\* delivery, so a notification may arrive again at any later time.
RedeliveryConfigs == {Cfg(2, 6, 2), Cfg(1, 4, 1), Cfg(1, 5, 3)}
InitRedelivery == InitWith(RedeliveryConfigs)
NextRedelivery ==
    \/ \E id \in BotIds : ~IsRunning(id) /\ StartBot(Caller, id)
    \/ StartCancel(Caller)
    \/ \E last_close \in LifecycleCloses(bot_config),
          accepted \in SUBSET GridLevelSet(bot_config) :
            StartGrid(Caller, last_close, accepted)
    \/ StartSubscribe(Caller)
    \/ StartSetRunning(Caller)
    \/ StartRegister(Caller)
    \/ \E b \in Slots, trade \in LifecycleTrades(bot_config), resp \in PlaceResps :
            Phase(b) = "Running" /\ OnFillObserved(b, trade, resp)
SpecRedelivery == InitRedelivery /\ [][NextRedelivery]_vars

\* ------------------------------------------------------------------------
\* Properties
\* ------------------------------------------------------------------------
\* the steps with which a start_bot call returns
StartReturns == {"StartBotRaise", "StartCancelRaise", "StartPriceUnavailable",
                 "StartSubscribeRaise", "StartRegister"}
\* the RunningBot objects of a bot id, and those whose feed thread is alive
LiveObjects(id) == {b \in Slots : bots[b].live /\ bots[b].id = id}
Subscriptions(id) == {b \in LiveObjects(id) : bots[b].thread}

\* C1: a start for a bot id that was Running when the call was made returns
\* false, has called neither cancel_all nor place_order, leaves the
\* registered object in place as the only object of that id, and opens no
\* second subscription.
C1_StartOfRunningBotIsNoOp ==
    (last.op \in StartReturns /\ last.found # 0) =>
        /\ last.ret = "false"
        /\ last.issued \cap {"cancel_all", "place_order"} = {}
        /\ IsRunning(last.id) /\ running_bots[last.id] = last.found
        /\ LiveObjects(last.id) = {last.found}
        /\ Subscriptions(last.id) \subseteq {last.found}

\* C2: a notification delivered to an object that is Starting or Stopping
\* changes nothing in its active_orders and places no order.
C2_FillsOnlyWhileRunning ==
    [][\A b \in Slots, trade \in LifecycleTrades(bot_config), resp \in PlaceResps :
         (OnFill(b, trade, resp) /\ Phase(b) \in {"Starting", "Stopping"}) =>
            /\ bots'[b].active_orders = bots[b].active_orders
            /\ last'.calls = <<>>]_vars

\* C3: at no time do two objects of one bot id have a live feed thread,
\* also when a stop whose join timed out is followed by a start.
C3_OneSubscriptionPerBot ==
    \A id \in BotIds : Cardinality(Subscriptions(id)) <= 1

\* the dict a fill of the tracked level P must leave, by the decimal
\* arithmetic of the grid: P removed, and the opposite side at the adjacent
\* level if that level is within [min_price, max_price]
ExpectedAfterFill(cfg, active_orders, P) ==
    LET side   == active_orders[P]
        target == IF side = "buy" THEN P + cfg.bin_step ELSE P - cfg.bin_step
        within == IF side = "buy" THEN target <= cfg.max_price
                                  ELSE target >= cfg.min_price
    IN  IF within
        THEN Put(Pop(active_orders, P), target, IF side = "buy" THEN "sell" ELSE "buy")
        ELSE Pop(active_orders, P)

IsTokenFill(trade) == trade.coin = bot_config.token /\ trade.trade_type = "FILL"
\* the last step was an on_fill for a level the object tracked
TrackedFill ==
    /\ last.op = "OnFill"
    /\ IsTokenFill(last.trade)
    /\ Round4(last.trade.price) \in DOMAIN last.before

\* C4: a fill of a tracked level P, processed by a running object and no
\* replacement refused by the exchange, removes P and records the opposite
\* side at the adjacent level exactly if that level is within the range
\* (buy: P + bin_step <= max_price, sell: P - bin_step >= min_price);
\* nothing else changes.
C4_FillReplacesAtAdjacentLevel ==
    (TrackedFill /\ bots[last.bot].running /\ last.outcome # "failed") =>
        bots[last.bot].active_orders =
            ExpectedAfterFill(bot_config, last.before, Round4(last.trade.price))

\* C5: a notification for a level the object does not track, for another
\* market, or of an event that is not a fill leaves active_orders as it
\* was and places no order.
C5_ForeignFillChangesNothing ==
    (last.op = "OnFill" /\ ~TrackedFill) =>
        /\ bots[last.bot].active_orders = last.before
        /\ last.calls = <<>>

\* a fill of the bot's market arrived for a level the object did not track
\* while it tracked others
C5_Witness ==
    /\ last.op = "OnFill"
    /\ IsTokenFill(last.trade)
    /\ last.before # NoOrders
    /\ Round4(last.trade.price) \notin DOMAIN last.before

\* C6: the same notification processed a second time right after the first
\* changes nothing and places no order, whatever became of the replacement
\* order of the first.
C6_ImmediateRedeliveryIsNoOp ==
    (last.op = "OnFill" /\ last.prev # "none") =>
        /\ bots[last.bot].active_orders = last.before
        /\ last.calls = <<>>

\* a notification was processed, its replacement refused by the exchange,
\* and then processed again
C6_Witness ==
    /\ last.op = "OnFill"
    /\ last.prev = "failed"

\* C7: a notification the object has processed before changes nothing and
\* places no order when it arrives again, whatever was processed in between.
C7_RedeliveryIsNoOp ==
    [][\A b \in Slots, trade \in LifecycleTrades(bot_config), resp \in PlaceResps :
         (/\ OnFillObserved(b, trade, resp)
          /\ [bot |-> b, trade |-> trade] \in delivered) =>
            /\ bots'[b].active_orders = bots[b].active_orders
            /\ last'.calls = <<>>]_vars

\* the levels min_price, min_price + bin_step, ... that do not exceed
\* max_price
ArithmeticLevels(cfg) ==
    {p \in cfg.min_price..cfg.max_price : (p - cfg.min_price) % cfg.bin_step = 0}
Elems(seq) == {seq[i] : i \in 1..Len(seq)}

\* C8: buys, sells and one excluded level partition the levels min_price,
\* min_price + bin_step, ... <= max_price: no level in both, none missing,
\* none twice, every buy below the excluded level and every sell above it.
C8_BuildPartitionsTheLevels ==
    last.op = "Build" =>
        \E e \in ArithmeticLevels(bot_config) :
            /\ Elems(built.buys) \cup Elems(built.sells) = ArithmeticLevels(bot_config) \ {e}
            /\ Elems(built.buys) \cap Elems(built.sells) = {}
            /\ Len(built.buys) = Cardinality(Elems(built.buys))
            /\ Len(built.sells) = Cardinality(Elems(built.sells))
            /\ \A p \in Elems(built.buys) : p < e
            /\ \A p \in Elems(built.sells) : p > e

\* the levels of the grid that build put on neither side
Excluded == GridLevelSet(bot_config) \ (Elems(built.buys) \cup Elems(built.sells))

\* C9: the excluded level is one of least distance to the reference price
\* rounded to 4 decimals, and the lower one where two levels are equally
\* distant.
C9_ExcludedIsClosestLowerOnTie ==
    last.op = "Build" =>
        LET ref == Round4(built.last_close) IN
        \E e \in GridLevelSet(bot_config) :
            /\ Excluded = {e}
            /\ \A p \in GridLevelSet(bot_config) :
                    \/ Abs(e - ref) < Abs(p - ref)
                    \/ Abs(e - ref) = Abs(p - ref) /\ e <= p

\* the steps with which a start fails
StartFailures == {"StartCancelRaise", "StartPriceUnavailable", "StartSubscribeRaise"}

\* C10: when a step of the start fails, start_bot returns false, the
\* object is not running, the registry has no entry for the bot id; when
\* the price is unavailable, no order was placed and no subscription
\* opened.
C10_FailedStartLeavesNothing ==
    last.op \in StartFailures =>
        /\ last.ret = "false"
        /\ ~last.obj.running
        /\ ~IsRunning(last.id)
        /\ last.op = "StartPriceUnavailable" =>
              /\ "place_order" \notin last.issued
              /\ last.obj.monitor = "none"
              /\ ~last.obj.thread

\* the place_order calls of the last step
PlaceCalls == SelectSeq(last.calls, LAMBDA call : call.op = "place_order")

\* C11: the grid placement of start sends one order for every level build
\* returned, the buys in ascending order and then the sells in ascending
\* order, whether or not earlier ones were refused; active_orders then holds
\* exactly the levels whose order was accepted, with the side sent; and
\* start goes on to open the subscription.
C11_StartupPlacementGoesOn ==
    last.op = "StartGrid" =>
        LET grid   == build(bot_config, last.calls[1].price)
            levels == grid.buys \o grid.sells
            book   == bots[last.bot].active_orders
        IN  /\ Len(PlaceCalls) = Len(levels)
            /\ \A i \in 1..Len(levels) :
                    /\ PlaceCalls[i].price = Sub * levels[i]
                    /\ PlaceCalls[i].side = IF i <= Len(grid.buys) THEN "buy" ELSE "sell"
            /\ \A i, j \in 1..Len(grid.buys) : i < j => PlaceCalls[i].price < PlaceCalls[j].price
            /\ \A i, j \in (Len(grid.buys) + 1)..Len(levels) :
                    i < j => PlaceCalls[i].price < PlaceCalls[j].price
            /\ DOMAIN book = {levels[i] : i \in {k \in 1..Len(levels) : PlaceCalls[k].ok}}
            /\ \A i \in 1..Len(levels) :
                    PlaceCalls[i].ok => book[levels[i]] = PlaceCalls[i].side
            /\ ctx[last.who].pc = "start_subscribe"

\* an order of the grid was refused and a later one of the same start was
\* accepted
C11_Witness ==
    /\ last.op = "StartGrid"
    /\ \E i, j \in 1..Len(PlaceCalls) :
            i < j /\ ~PlaceCalls[i].ok /\ PlaceCalls[j].ok

\* the steps with which a stop_bot call that found the bot registered ends
StopReturns == {"StopDel", "StopCancelRaise", "StopDelKeyError"}

\* C12: a stop_bot call for a registered, running bot ends by returning
\* True with the object not running and the bot id out of the registry,
\* also when cancel_all fails; it never leaves the bot registered as
\* running with its monitor stopped.
C12_StopCompletesDespiteCancelFailure ==
    (last.op \in StopReturns /\ last.found # 0) =>
        /\ last.ret = "true"
        /\ ~last.obj.running
        /\ ~IsRunning(last.id)
        /\ ~(IsRunning(last.id) /\ last.obj.running /\ last.obj.monitor = "stopped")

\* C13: stop_bot for a bot id that is not registered returns False and
\* calls nothing; and every stop_bot call whose cancel_all did not fail,
\* also one that runs while another context stops the same bot, returns
\* without an exception and leaves the object not running and the bot id
\* out of the registry.
C13_StopIdempotentAcrossContexts ==
    /\ last.op = "StopBotNotRunning" =>
            /\ last.ret = "false"
            /\ last.calls = <<>>
            /\ last.issued = {}
    /\ last.op \in {"StopDel", "StopDelKeyError"} =>
            /\ last.ret \in {"true", "false"}
            /\ ~last.obj.running
            /\ ~IsRunning(last.id)

\* The dashboard with the log queues followed: one session starts and
\* stops the bot, every session shows its live logs (app.py:101-104).
LogTrades(cfg) == {t \in LifecycleTrades(cfg) : t.trade_type = "FILL"}
InitLogs ==
    /\ bot_config \in LifecycleConfigs
    /\ running_bots = [id \in {} |-> 0]
    /\ bots = [b \in Slots |-> FreeBot]
    /\ ctx = [c \in Ctxs |-> IdleCtx]
    /\ last = Step("init", "none", 0, <<>>)
    /\ built = [last_close |-> 0, buys |-> <<>>, sells |-> <<>>]
    /\ delivered = {}
    /\ logs = [LogsOff EXCEPT !.on = TRUE]
NextLogs ==
    \/ \E id \in BotIds : ~IsRunning(id) /\ StartBot(Caller, id)
    \/ StartCancel(Caller)
    \/ StartCancelRaise(Caller)
    \/ \E last_close \in LifecycleCloses(bot_config) :
            StartGrid(Caller, last_close, GridLevelSet(bot_config))
    \/ StartSubscribe(Caller)
    \/ StartSetRunning(Caller)
    \/ StartRegister(Caller)
    \/ \E id \in BotIds : StopBot(Caller, id)
    \/ StopMonitor(Caller)
    \/ StopJoinExited(Caller)
    \/ StopJoinTimeout(Caller)
    \/ StopCancel(Caller)
    \/ StopDel(Caller)
    \/ \E b \in Slots, trade \in LogTrades(bot_config) : OnFill(b, trade, "ok")
    \/ \E b \in Slots : ThreadExit(b)
    \/ \E c \in Ctxs, id \in BotIds : GetLogsNotRunning(c, id)
    \/ \E c \in Ctxs, id \in BotIds : GetLogs(c, id)
    \/ \E c \in Ctxs : GetLogsMore(c)
    \/ \E c \in Ctxs : GetLogsTake(c)
    \/ \E c \in Ctxs : GetLogsReturn(c)
SpecLogs == InitLogs /\ [][NextLogs]_vars

\* the entries get_bot_logs calls have returned or, being in progress,
\* have taken so far, as one sequence
RECURSIVE TakenBy(_)
TakenBy(cs) ==
    IF cs = {} THEN <<>>
    ELSE LET c == CHOOSE x \in cs : TRUE IN ctx[c].logs \o TakenBy(cs \ {c})
AllTaken == logs.returned \o TakenBy(Ctxs)
NoRepeat(seq) == \A i, j \in 1..Len(seq) : i # j => seq[i] # seq[j]
Ascending(seq) == \A i, j \in 1..Len(seq) : i < j => seq[i] < seq[j]

\* C14: no log entry is handed out twice, by one get_bot_logs call or by
\* two; every list returned is in the order of emission and holds only
\* entries that were emitted; and of the entries of one object none is
\* passed over: when an entry has left the queue, every entry the object
\* emitted before it has left it too.
C14_LogsDrainedOnceInOrder ==
    /\ NoRepeat(AllTaken)
    /\ last.op \in {"GetLogsReturn", "GetLogsNotRunning"} =>
            /\ Ascending(last.logs)
            /\ Elems(last.logs) \subseteq 1..(logs.next - 1)
    /\ \A b \in Slots :
            /\ Elems(logs.queue[b]) \subseteq Elems(logs.emitted[b])
            /\ Ascending(logs.queue[b])
            /\ \A e \in Elems(logs.emitted[b]) \ Elems(logs.queue[b]) :
                    /\ e \in Elems(AllTaken)
                    /\ \A q \in Elems(logs.queue[b]) : e < q

\* a get_bot_logs call returned entries after an earlier call had returned
\* others
C14_Witness ==
    /\ last.op = "GetLogsReturn"
    /\ last.logs # <<>>
    /\ Len(logs.returned) > Len(last.logs)

\* The dashboard session with on_fill followed statement by statement.
StepwiseConfigs == {Cfg(2, 6, 2)}
InitStepwise == InitWith(StepwiseConfigs)
NextStepwise ==
    \/ \E id \in BotIds : ~IsRunning(id) /\ StartBot(Caller, id)
    \/ StartCancel(Caller)
    \/ StartCancelRaise(Caller)
    \/ \E last_close \in LifecycleCloses(bot_config) :
            StartGrid(Caller, last_close, GridLevelSet(bot_config))
    \/ StartPriceUnavailable(Caller)
    \/ StartSubscribe(Caller)
    \/ StartSubscribeRaise(Caller)
    \/ StartSetRunning(Caller)
    \/ StartRegister(Caller)
    \/ \E id \in BotIds : StopBot(Caller, id)
    \/ StopMonitor(Caller)
    \/ StopJoinExited(Caller)
    \/ StopJoinTimeout(Caller)
    \/ StopCancel(Caller)
    \/ StopCancelRaise(Caller)
    \/ StopDel(Caller)
    \/ \E b \in Slots, trade \in LifecycleTrades(bot_config) : OnFillPop(b, trade)
    \/ \E b \in Slots, resp \in PlaceResps : OnFillPlace(b, resp)
    \/ \E b \in Slots : ThreadExit(b)
SpecStepwise == InitStepwise /\ [][NextStepwise]_vars

\* the placement loops of start are running or still to come for object b
PlacementAhead(b) ==
    \E c \in Ctxs : ctx[c].bot = b /\ ctx[c].pc \in {"start_cancel", "start_price"}

TrackedTrades(b) ==
    {t \in Trades(bot_config) :
        IsTokenFill(t) /\ Round4(t.price) \in DOMAIN bots[b].active_orders}

PlacedKey(call) == Round4(call.price)

\* C17: a replacement order is never placed at a level for which the
\* object's active_orders still records a resting order: the entry of an
\* order that has not been filled is not overwritten.
C17_ReplacementNeverOverwrites ==
    (last.op = "OnFill" /\ last.outcome = "replaced" /\ bots[last.bot].running) =>
        PlacedKey(last.calls[1]) \notin
            DOMAIN Pop(last.before, Round4(last.trade.price))

\* the side recorded for the level of the fill last processed
FilledSide == last.before[Round4(last.trade.price)]

\* C18: a processed fill of a tracked sell, and a processed fill of a
\* tracked buy at min_price, never takes the out-of-range branch of
\* on_fill.
C18_NoDropAtTheBoundaries ==
    (last.op = "OnFill" /\ TrackedFill /\ bots[last.bot].running
     /\ (\/ FilledSide = "sell"
         \/ FilledSide = "buy" /\ Round4(last.trade.price) = bot_config.min_price)) =>
        last.outcome # "skipped"

\* the half of C18 about the buy at min_price
BuyAtFloorNeverDropped ==
    (last.op = "OnFill" /\ TrackedFill /\ bots[last.bot].running
     /\ FilledSide = "buy" /\ Round4(last.trade.price) = bot_config.min_price) =>
        last.outcome # "skipped"

\* C19: every level an object's active_orders records, and the price of
\* every order sent at startup or as a replacement, lies within
\* [min_price, max_price], whatever the remainder of the range by the step.
C19_GridStaysInRange ==
    /\ \A b \in Slots : \A p \in DOMAIN bots[b].active_orders :
            bot_config.min_price <= p /\ p <= bot_config.max_price
    /\ \A i \in 1..Len(PlaceCalls) :
            /\ Sub * bot_config.min_price <= PlaceCalls[i].price
            /\ PlaceCalls[i].price <= Sub * bot_config.max_price

\* the half of C19 about replacement orders
ReplacementsStayInRange ==
    last.op = "OnFill" =>
        \A i \in 1..Len(PlaceCalls) :
            /\ Sub * bot_config.min_price <= PlaceCalls[i].price
            /\ PlaceCalls[i].price <= Sub * bot_config.max_price

\* max_price - min_price is a whole number of steps
ExactMultiple(cfg) == (cfg.max_price - cfg.min_price) % cfg.bin_step = 0

\* tracked buys leave room for a sell one step up, tracked sells for a buy
\* one step down; every tracked level is min_price + k * bin_step; one
\* level at least is vacant
GridShape(orders) ==
    /\ \A p \in DOMAIN orders :
            /\ p \in ArithmeticLevels(bot_config)
            /\ orders[p] = "buy" => p <= bot_config.max_price - bot_config.bin_step
            /\ orders[p] = "sell" => p >= bot_config.min_price + bot_config.bin_step
    /\ Cardinality(DOMAIN orders) <= Cardinality(ArithmeticLevels(bot_config)) - 1

\* the shape of the dicts and the count across a fill, for exact multiples
ExactGridKeepsShape ==
    ExactMultiple(bot_config) =>
        /\ \A b \in Slots : GridShape(bots[b].active_orders)
        /\ last.op = "OnFill" =>
                Cardinality(DOMAIN bots[last.bot].active_orders)
                    <= Cardinality(DOMAIN last.before)

\* C20: when max_price - min_price is a whole number of steps, no
\* processed fill takes the out-of-range branch; tracked buys are at most
\* max_price - bin_step and tracked sells at least min_price + bin_step;
\* every tracked level is a grid level; a dict has fewer entries than there
\* are levels, and a fill never adds one.
C20_ExactGridNeverDrops ==
    ExactMultiple(bot_config) =>
        /\ (last.op = "OnFill" /\ bots[last.bot].running) => last.outcome # "skipped"
        /\ \A b \in Slots : GridShape(bots[b].active_orders)
        /\ last.op = "OnFill" =>
                Cardinality(DOMAIN bots[last.bot].active_orders)
                    <= Cardinality(DOMAIN last.before)

====
